---- MODULE Spec2Model ----
(***************************************************************************)
(* Model of src/bin/tuser.rs: the Lambda handler search_for_users, the     *)
(* query builder generate_api_url and the directory client get_user_info.  *)
(*                                                                         *)
(* Strings the program takes apart or joins (the command text, the URL,    *)
(* the message text, author_name) are sequences of one-character strings.  *)
(* Strings the program only copies or compares for equality (the tokens,   *)
(* the colour, the image URL, error messages) are TLA+ strings.            *)
(***************************************************************************)
EXTENDS Integers, Sequences, FiniteSets, TLC

(* ------------------------------ bounds -------------------------------- *)

\* Longest command text drawn, in words.
MaxWords == 2

\* Longest record list the directory returns.
MaxRecords == 2

(* ------------------------- program constants -------------------------- *)

\* A u32 is held as two 16-bit limbs, value = hi * Limb + lo, so that the
\* checked arithmetic of trimmed.parse::<u32>() keeps its 32-bit width.
Limb == 65536

\* data.status() != 200
StatusOk == 200

BaseUrl == <<"h", "t", "t", "p", "s", ":", "/", "/", "a", "p", "i", ".", "t", "w", "i", "t", "c", "h", ".", "t", "v", "/", "h", "e", "l", "i", "x", "/", "u", "s", "e", "r", "s", "?">>

FailPrefix == <<"U", "s", "e", "r", " ", "l", "o", "o", "k", "u", "p", " ", "f", "a", "i", "l", "e", "d", " ", "f", "o", "r", " ">>

IdPrefix == <<"i", "d", "=">>

LoginPrefix == <<"l", "o", "g", "i", "n", "=">>

Amp == <<"&">>

ColonSpace == <<":", " ">>

Bearer == <<"B", "e", "a", "r", "e", "r", " ">>

Color == "#73535ad"

InChannel == "in_channel"

ErrNoToken == "No Slack token provided"

ErrBadToken == "Bad Slack token provided"

ErrNoIdentifiers == "No valid Twitch usernames or IDs found"

ErrSecretFetch == "GetSecretValueError"

PanicNoBody == "No body data sent"

PanicBodyNotString == "Body data not a string?"

PanicBadJson == "unwrap on an Err value"

PanicNoSecretString == "Could not find secrets"

ErrNon200 == "Received non-200 response from Twitch"

ErrDecode == "Could non decode Twitch response"

ErrTransport == "Request to Twitch failed"

(* --------------------------- string helpers --------------------------- *)

DigitChars == <<"0", "1", "2", "3", "4", "5", "6", "7", "8", "9">>

IsDigit(c) == \E i \in 1..10 : DigitChars[i] = c

DigitVal(c) == (CHOOSE i \in 1..10 : DigitChars[i] = c) - 1

\* char::is_whitespace for the characters the inputs use.
IsWhitespace(c) == c \in {" ", "\t", "\n"}

\* The first index >= i of s that holds a whitespace character, Len(s)+1 if none.
RECURSIVE NextWhitespace(_, _)
NextWhitespace(s, i) ==
    IF i > Len(s) \/ IsWhitespace(s[i]) THEN i ELSE NextWhitespace(s, i + 1)

\* str::split_whitespace: the maximal runs of non-whitespace, in order.
RECURSIVE split_whitespace(_)
split_whitespace(s) ==
    IF s = <<>> THEN <<>>
    ELSE IF IsWhitespace(Head(s)) THEN split_whitespace(Tail(s))
    ELSE LET e == NextWhitespace(s, 1)
         IN  <<SubSeq(s, 1, e - 1)>> \o split_whitespace(SubSeq(s, e, Len(s)))

RECURSIVE TrimStart(_, _)
TrimStart(s, c) ==
    IF s # <<>> /\ Head(s) = c THEN TrimStart(Tail(s), c) ELSE s

RECURSIVE TrimEnd(_, _)
TrimEnd(s, c) ==
    IF s # <<>> /\ s[Len(s)] = c THEN TrimEnd(SubSeq(s, 1, Len(s) - 1), c) ELSE s

\* str::trim_matches(c): c stripped from both ends, never from the middle.
trim_matches(s, c) == TrimEnd(TrimStart(s, c), c)

\* u32::checked_mul(10) followed by u32::checked_add(d) on the limbs of acc:
\* ok is FALSE when the result does not fit 32 bits.
MulAdd10(acc, d) ==
    LET lo10 == acc.lo * 10 + d
        hi10 == acc.hi * 10 + (lo10 \div Limb)
    IN  [ok |-> hi10 < Limb, hi |-> hi10 % Limb, lo |-> lo10 % Limb]

\* The digit loop of u32::from_str: fails on a character that is no decimal
\* digit and on overflow.
RECURSIVE ParseDigits(_, _)
ParseDigits(s, acc) ==
    IF s = <<>> THEN acc
    ELSE IF ~IsDigit(Head(s)) THEN [ok |-> FALSE, hi |-> 0, lo |-> 0]
    ELSE LET v == MulAdd10(acc, DigitVal(Head(s)))
         IN  IF ~v.ok THEN v ELSE ParseDigits(Tail(s), v)

\* trimmed.parse::<u32>(): empty input fails, one leading "+" is accepted,
\* "-" is not, every other character must be a decimal digit and the value
\* must fit 32 bits.
parse_u32(s) ==
    LET digits == IF s # <<>> /\ Head(s) = "+" THEN Tail(s) ELSE s
    IN  IF digits = <<>> THEN [ok |-> FALSE, hi |-> 0, lo |-> 0]
        ELSE ParseDigits(digits, [ok |-> TRUE, hi |-> 0, lo |-> 0])

\* [String]::join(sep)
RECURSIVE join(_, _)
join(list, sep) ==
    IF list = <<>> THEN <<>>
    ELSE IF Len(list) = 1 THEN list[1]
    ELSE list[1] \o sep \o join(Tail(list), sep)

(* --------------------------- generate_api_url ------------------------- *)

\* The loop of generate_api_url over the whitespace-split items: every item
\* is pushed to one of the two lists, as "id=<trimmed>" when it parses as a
\* u32 and as "login=<trimmed>" otherwise.
RECURSIVE Classify(_, _, _)
Classify(items, ids, logins) ==
    IF items = <<>> THEN [ids |-> ids, logins |-> logins]
    ELSE LET trimmed == trim_matches(Head(items), ",")
         IN  IF parse_u32(trimmed).ok
             THEN Classify(Tail(items), Append(ids, IdPrefix \o trimmed), logins)
             ELSE Classify(Tail(items), ids, Append(logins, LoginPrefix \o trimmed))

generate_api_url(text) ==
    LET lists == Classify(split_whitespace(text), <<>>, <<>>)
        ids == lists.ids
        logins == lists.logins
        p1 == IF Len(ids) > 0 THEN join(ids, Amp) \o Amp ELSE <<>>
        params == IF Len(logins) > 0 THEN p1 \o join(logins, Amp) ELSE p1
    IN  IF Len(ids) = 0 /\ Len(logins) = 0
        THEN [ok |-> FALSE, ids |-> ids, logins |-> logins, url |-> <<>>,
              error |-> ErrNoIdentifiers]
        ELSE [ok |-> TRUE, ids |-> ids, logins |-> logins,
              url |-> BaseUrl \o params, error |-> ""]

(* ----------------------------- get_user_info -------------------------- *)

\* The GET request get_user_info builds: the URL and the two headers.
DirectoryRequest(u, sec) ==
    [url |-> u,
     client_id |-> sec.twitch_client_id,
     authorization |-> Bearer \o sec.twitch_app_token]

\* The closure mapped over arr.data.
SlackAttachment(a) ==
    [color |-> Color,
     author_name |-> a.display_name \o ColonSpace \o a.id,
     author_icon |-> a.profile_image_url]

\* get_user_info with every 2xx status taken as success.
get_user_info_Any2xx(r) ==
    IF r.kind # "response"
    THEN [ok |-> FALSE, users |-> <<>>, error |-> ErrTransport]
    ELSE IF r.status \notin 200..299
    THEN [ok |-> FALSE, users |-> <<>>, error |-> ErrNon200]
    ELSE IF ~r.decodable
    THEN [ok |-> FALSE, users |-> <<>>, error |-> ErrDecode]
    ELSE [ok |-> TRUE,
          users |-> [i \in 1..Len(r.data) |-> SlackAttachment(r.data[i])],
          error |-> ""]

\* get_user_info with an empty record list taken as a failure.
get_user_info_EmptyIsError(r) ==
    IF r.kind # "response"
    THEN [ok |-> FALSE, users |-> <<>>, error |-> ErrTransport]
    ELSE IF r.status # StatusOk
    THEN [ok |-> FALSE, users |-> <<>>, error |-> ErrNon200]
    ELSE IF ~r.decodable \/ r.data = <<>>
    THEN [ok |-> FALSE, users |-> <<>>, error |-> ErrDecode]
    ELSE [ok |-> TRUE,
          users |-> [i \in 1..Len(r.data) |-> SlackAttachment(r.data[i])],
          error |-> ""]

\* The match on the reply of send(): a transport error, a status other than
\* 200 (the body is not read), a body that does not decode, or the records
\* mapped to attachments in order.
get_user_info(r) ==
    IF r.kind # "response"
    THEN [ok |-> FALSE, users |-> <<>>, error |-> ErrTransport]
    ELSE IF r.status # StatusOk
    THEN [ok |-> FALSE, users |-> <<>>, error |-> ErrNon200]
    ELSE IF ~r.decodable
    THEN [ok |-> FALSE, users |-> <<>>, error |-> ErrDecode]
    ELSE [ok |-> TRUE,
          users |-> [i \in 1..Len(r.data) |-> SlackAttachment(r.data[i])],
          error |-> ""]

\* SlackMessage with the cause of the failure appended to the text.
SlackMessage_WithCause(users_result, text) ==
    IF users_result.ok
    THEN [response_type |-> InChannel, text |-> <<>>,
          attachments |-> users_result.users]
    ELSE [response_type |-> InChannel,
          text |-> FailPrefix \o text \o ColonSpace \o <<users_result.error>>,
          attachments |-> <<>>]

\* The match on users_result that ends search_for_users.
SlackMessage(users_result, text) ==
    IF users_result.ok
    THEN [response_type |-> InChannel, text |-> <<>>,
          attachments |-> users_result.users]
    ELSE [response_type |-> InChannel, text |-> FailPrefix \o text,
          attachments |-> <<>>]

(* -------------------------------- inputs ------------------------------ *)

Words ==
    { <<"1", "2", "3", ",">>,
      <<"f", "o", "o">>,
      <<",", "f", "o", "o", ",">>,
      <<",">>,
      <<"0", "0", "7">>,
      <<"4", "2", "9", "4", "9", "6", "7", "2", "9", "5">>,
      <<"4", "2", "9", "4", "9", "6", "7", "2", "9", "6">>,
      <<"+", "5">>,
      <<"n", "i", "n", "j", "a">> }

Separators == { <<" ">>, <<"\t", " ">> }

ExampleText == <<"1", "2", "3", ",", " ", "f", "o", "o", " ", "4", "5", "6", ",", ",", "b", "a", "r">>

FixedTexts ==
    { <<>>, <<" ">>, <<" ", "\t">>, <<",", ",">>, <<" ", ",", " ", ",", ",", " ">>,
      <<" ", "n", "i", "n", "j", "a", " ">>, ExampleText }

WordLists == UNION { [1..n -> Words] : n \in 0..MaxWords }

Texts == FixedTexts \cup { join(ws, sep) : ws \in WordLists, sep \in Separators }

Tokens == {"", "secret", "Secret", "wrong"}

Events ==
    { [body |-> "json", token |-> t, text |-> x] : t \in Tokens, x \in Texts }
    \cup { [body |-> b, token |-> "", text |-> <<>>] :
             b \in {"absent", "not_string", "bad_json"} }

Bundles ==
    { [slack_token |-> t, twitch_client_id |-> "clientid",
       twitch_client_secret |-> "clientsecret",
       twitch_app_token |-> <<"a", "p", "p", "t", "o", "k", "e", "n">>] :
      t \in {"secret", ""} }

\* What get_secret_value can yield: an error, a value without secret_string,
\* a secret_string that is no Secrets object, or a bundle.
SecretReplies ==
    { [kind |-> k, bundle |-> CHOOSE b \in Bundles : b.slack_token = ""] :
      k \in {"error", "no_string", "malformed"} }
    \cup { [kind |-> "bundle", bundle |-> b] : b \in Bundles }

Records ==
    { [user_type |-> "", id |-> <<"1", "9", "5", "7", "1", "6", "4", "1">>,
       login |-> "ninja", display_name |-> <<"N", "i", "n", "j", "a">>,
       broadcaster_type |-> "partner", description |-> "",
       profile_image_url |-> "http://x/y.png", offline_image_url |-> ""],
      [user_type |-> "staff", id |-> <<"0", "0", "7">>,
       login |-> "foo", display_name |-> <<"F", "o", "o", ":", " ">>,
       broadcaster_type |-> "", description |-> "d",
       profile_image_url |-> "http://x/z.png", offline_image_url |-> ""] }

RecordLists == UNION { [1..n -> Records] : n \in 0..MaxRecords }

Statuses == {200, 201, 302, 404, 500}

Bodies ==
    { [decodable |-> FALSE, data |-> <<>>] }
    \cup { [decodable |-> TRUE, data |-> l] : l \in RecordLists }

\* What send() can yield: a transport error or a response.
Replies ==
    { [kind |-> "transport_error", status |-> 0, decodable |-> FALSE, data |-> <<>>] }
    \cup { [kind |-> "response", status |-> s, decodable |-> b.decodable,
            data |-> b.data] : s \in Statuses, b \in Bodies }

(* -------------------------------- state ------------------------------- *)

VARIABLES
    pc,         \* the position of the invocation in search_for_users
    trail,      \* the positions the invocation has left, in order
    event,      \* the Lambda event being handled
    req,        \* the UserSearchRequest parsed from the body
    secrets,    \* the Secrets parsed from the secret string
    url,        \* the URL generate_api_url returned
    sent,       \* the requests dispatched to the directory, in order
    reply,      \* what send() yielded
    outcome,    \* how the handler ended: "None", "Ok", "Err" or "Panic"
    error,      \* the error or panic message when outcome is "Err" or "Panic"
    responses   \* the SlackMessages the handler returned, in order

vars == <<pc, trail, event, req, secrets, url, sent, reply, outcome, error, responses>>

NoEvent == [body |-> "none", token |-> "", text |-> <<>>]

NoReq == [parsed |-> FALSE, token |-> "", text |-> <<>>]

NoSecrets ==
    [loaded |-> FALSE, slack_token |-> "", twitch_client_id |-> "",
     twitch_client_secret |-> "", twitch_app_token |-> <<>>]

NoUrl == [built |-> FALSE, value |-> <<>>]

NoReply == [kind |-> "none", status |-> 0, decodable |-> FALSE, data |-> <<>>]

Init ==
    /\ pc = "Idle"
    /\ trail = <<>>
    /\ event = NoEvent
    /\ req = NoReq
    /\ secrets = NoSecrets
    /\ url = NoUrl
    /\ sent = <<>>
    /\ reply = NoReply
    /\ outcome = "None"
    /\ error = ""
    /\ responses = <<>>

Goto(next) == pc' = next /\ trail' = Append(trail, pc)

ReturnErr(e) == Goto("Done") /\ outcome' = "Err" /\ error' = e

Panic(e) == Goto("Crashed") /\ outcome' = "Panic" /\ error' = e

\* lambda::run hands the next event to the handler.
Receive ==
    /\ pc = "Idle"
    /\ \E ev \in Events : event' = ev
    /\ pc' = "ParseEvent"
    /\ UNCHANGED <<trail, req, secrets, url, sent, reply, outcome, error, responses>>

\* lambda::run delivers the handler's result and waits for the next event;
\* nothing of the invocation is kept.
Deliver ==
    /\ pc = "Done"
    /\ pc' = "Idle"
    /\ trail' = <<>>
    /\ event' = NoEvent
    /\ req' = NoReq
    /\ secrets' = NoSecrets
    /\ url' = NoUrl
    /\ sent' = <<>>
    /\ reply' = NoReply
    /\ outcome' = "None"
    /\ error' = ""
    /\ responses' = <<>>

\* event.get("body").expect(..).as_str().expect(..) and the unwrap of
\* serde_json::from_str.
ParseEvent ==
    /\ pc = "ParseEvent"
    /\ IF event.body = "absent" THEN Panic(PanicNoBody) /\ req' = req
       ELSE IF event.body = "not_string" THEN Panic(PanicBodyNotString) /\ req' = req
       ELSE IF event.body = "bad_json" THEN Panic(PanicBadJson) /\ req' = req
       ELSE /\ req' = [parsed |-> TRUE, token |-> event.token, text |-> event.text]
            /\ Goto("CheckToken")
            /\ UNCHANGED <<outcome, error>>
    /\ UNCHANGED <<event, secrets, url, sent, reply, responses>>

\* if req.token == "" { bail!(..) }
CheckToken ==
    /\ pc = "CheckToken"
    /\ IF req.token = "" THEN ReturnErr(ErrNoToken)
       ELSE Goto("GetSecrets") /\ UNCHANGED <<outcome, error>>
    /\ UNCHANGED <<event, req, secrets, url, sent, reply, responses>>

\* GetSecrets with a failed retrieval answered by the failure message.
GetSecrets_Caught ==
    /\ pc = "GetSecrets"
    /\ \E r \in SecretReplies :
         IF r.kind # "bundle"
         THEN /\ responses' = Append(responses, SlackMessage(
                      [ok |-> FALSE, users |-> <<>>, error |-> ErrSecretFetch], req.text))
              /\ outcome' = "Ok"
              /\ Goto("Done")
              /\ UNCHANGED <<secrets, error>>
         ELSE /\ secrets' = [loaded |-> TRUE,
                             slack_token |-> r.bundle.slack_token,
                             twitch_client_id |-> r.bundle.twitch_client_id,
                             twitch_client_secret |-> r.bundle.twitch_client_secret,
                             twitch_app_token |-> r.bundle.twitch_app_token]
              /\ Goto("CompareToken")
              /\ UNCHANGED <<outcome, error, responses>>
    /\ UNCHANGED <<event, req, url, sent, reply>>

\* get_secret_value(..).await?, secret_string.expect(..) and the unwrap of
\* serde_json::from_str.
GetSecrets ==
    /\ pc = "GetSecrets"
    /\ \E r \in SecretReplies :
         IF r.kind = "error" THEN ReturnErr(ErrSecretFetch) /\ secrets' = secrets
         ELSE IF r.kind = "no_string" THEN Panic(PanicNoSecretString) /\ secrets' = secrets
         ELSE IF r.kind = "malformed" THEN Panic(PanicBadJson) /\ secrets' = secrets
         ELSE /\ secrets' = [loaded |-> TRUE,
                             slack_token |-> r.bundle.slack_token,
                             twitch_client_id |-> r.bundle.twitch_client_id,
                             twitch_client_secret |-> r.bundle.twitch_client_secret,
                             twitch_app_token |-> r.bundle.twitch_app_token]
              /\ Goto("CompareToken")
              /\ UNCHANGED <<outcome, error>>
    /\ UNCHANGED <<event, req, url, sent, reply, responses>>

\* ASCII lower case of the tokens drawn.
ToLower(t) == IF t = "Secret" THEN "secret" ELSE t

\* CompareToken with the tokens compared without regard to case.
CompareToken_IgnoreCase ==
    /\ pc = "CompareToken"
    /\ IF ToLower(req.token) # ToLower(secrets.slack_token) THEN ReturnErr(ErrBadToken)
       ELSE Goto("BuildQuery") /\ UNCHANGED <<outcome, error>>
    /\ UNCHANGED <<event, req, secrets, url, sent, reply, responses>>

\* if req.token != secrets.slack_token { bail!(..) }
CompareToken ==
    /\ pc = "CompareToken"
    /\ IF req.token # secrets.slack_token THEN ReturnErr(ErrBadToken)
       ELSE Goto("BuildQuery") /\ UNCHANGED <<outcome, error>>
    /\ UNCHANGED <<event, req, secrets, url, sent, reply, responses>>

\* let url = generate_api_url(&req.text)?;
BuildQuery ==
    /\ pc = "BuildQuery"
    /\ LET g == generate_api_url(req.text)
       IN  IF ~g.ok THEN ReturnErr(g.error) /\ url' = url
           ELSE /\ url' = [built |-> TRUE, value |-> g.url]
                /\ Goto("SendRequest")
                /\ UNCHANGED <<outcome, error>>
    /\ UNCHANGED <<event, req, secrets, sent, reply, responses>>

\* client.get(&url).header(..).header(..).send(): one blocking call.
SendRequest ==
    /\ pc = "SendRequest"
    /\ sent' = Append(sent, DirectoryRequest(url.value, secrets))
    /\ \E r \in Replies : reply' = r
    /\ Goto("MatchResponse")
    /\ UNCHANGED <<event, req, secrets, url, outcome, error, responses>>

\* MatchResponse with the error of get_user_info propagated by "?".
MatchResponse_Propagate ==
    /\ pc = "MatchResponse"
    /\ LET users_result == get_user_info(reply)
       IN  IF users_result.ok
           THEN /\ responses' = Append(responses, SlackMessage(users_result, req.text))
                /\ outcome' = "Ok"
                /\ Goto("Done")
                /\ UNCHANGED error
           ELSE ReturnErr(users_result.error) /\ UNCHANGED responses
    /\ UNCHANGED <<event, req, secrets, url, sent, reply>>

\* MatchResponse with one more attempt after a failed call.
MatchResponse_Retry ==
    /\ pc = "MatchResponse"
    /\ LET users_result == get_user_info(reply)
       IN  IF ~users_result.ok /\ Len(sent) < 2
           THEN /\ pc' = "SendRequest"
                /\ UNCHANGED <<trail, responses, outcome>>
           ELSE /\ responses' = Append(responses, SlackMessage(users_result, req.text))
                /\ outcome' = "Ok"
                /\ Goto("Done")
    /\ UNCHANGED <<event, req, secrets, url, sent, reply, error>>

\* The matches on resp and on users_result: the handler returns Ok with the
\* one message.
MatchResponse ==
    /\ pc = "MatchResponse"
    /\ responses' = Append(responses, SlackMessage(get_user_info(reply), req.text))
    /\ outcome' = "Ok"
    /\ Goto("Done")
    /\ UNCHANGED <<event, req, secrets, url, sent, reply, error>>

Next ==
    \/ Receive
    \/ ParseEvent
    \/ CheckToken
    \/ GetSecrets
    \/ CompareToken
    \/ BuildQuery
    \/ SendRequest
    \/ MatchResponse
    \/ Deliver

Spec == Init /\ [][Next]_vars

(* ------------------------ vocabulary of the claims -------------------- *)

Range(f) == { f[i] : i \in DOMAIN f }

\* The handler has run the step at position p.
Executed(p) == p \in Range(trail)

Ended == pc \in {"Done", "Crashed"}

\* The handler ended in the step at position p.
EndedAt(p) == Ended /\ trail # <<>> /\ trail[Len(trail)] = p

\* The directory fetch failed: transport, upstream status or decode.
DirectoryFailed ==
    \/ reply.kind = "transport_error"
    \/ reply.kind = "response" /\ (reply.status # 200 \/ ~reply.decodable)

DirectorySucceeded ==
    reply.kind = "response" /\ reply.status = 200 /\ reply.decodable

\* Secret retrieval was attempted and gave no bundle.
ConfigFailed == Executed("GetSecrets") /\ ~secrets.loaded

FailureMessage(text) ==
    [response_type |-> "in_channel", text |-> FailPrefix \o text, attachments |-> <<>>]

\* The pieces of s between occurrences of the character c.
RECURSIVE SplitOn(_, _)
SplitOn(s, c) ==
    IF \A i \in 1..Len(s) : s[i] # c THEN <<s>>
    ELSE LET k == CHOOSE i \in 1..Len(s) : s[i] = c /\ \A j \in 1..(i - 1) : s[j] # c
         IN  <<SubSeq(s, 1, k - 1)>> \o SplitOn(SubSeq(s, k + 1, Len(s)), c)

StartsWith(s, prefix) ==
    Len(s) >= Len(prefix) /\ SubSeq(s, 1, Len(prefix)) = prefix

RECURSIVE SelectSeqBy(_, _)
SelectSeqBy(s, keep) ==
    IF s = <<>> THEN <<>>
    ELSE IF Head(s) \in keep THEN <<Head(s)>> \o SelectSeqBy(Tail(s), keep)
    ELSE SelectSeqBy(Tail(s), keep)

\* The reference reading of a command text: the whitespace-delimited words
\* with surrounding commas stripped, in order, duplicates kept.
StrippedTokens(text) ==
    LET items == split_whitespace(text)
    IN  [i \in 1..Len(items) |-> trim_matches(items[i], ",")]

\* A base-10 unsigned integer of any magnitude (a leading "+" is allowed).
IsUnsignedInteger(t) ==
    LET digits == IF t # <<>> /\ Head(t) = "+" THEN Tail(t) ELSE t
    IN  digits # <<>> /\ \A i \in 1..Len(digits) : IsDigit(digits[i])

\* The reference partition: empty tokens dropped, NumericId when the token
\* is an unsigned integer, LoginName otherwise.
RefTokens(text) ==
    LET ts == StrippedTokens(text) IN SelectSeqBy(ts, Range(ts) \ {<<>>})

RefNumericIds(text) ==
    LET ts == RefTokens(text)
    IN  SelectSeqBy(ts, { t \in Range(ts) : IsUnsignedInteger(t) })

RefLoginNames(text) ==
    LET ts == RefTokens(text)
    IN  SelectSeqBy(ts, { t \in Range(ts) : ~IsUnsignedInteger(t) })

\* The parameters of a built URL, in order.
Params(u) == SplitOn(SubSeq(u, Len(BaseUrl) + 1, Len(u)), "&")

IdsBeforeLogins(u) ==
    LET ps == Params(u)
    IN  \A i, j \in 1..Len(ps) :
          StartsWith(ps[i], LoginPrefix) /\ StartsWith(ps[j], IdPrefix) => j < i

\* The terminal branches of the handler, by what the request met.
AuthMissing == Executed("CheckToken") /\ req.token = ""

AuthMismatch == Executed("CompareToken") /\ req.token # secrets.slack_token

QueryFailed == Executed("BuildQuery") /\ ~url.built

PastAuthentication == pc = "BuildQuery" \/ Executed("BuildQuery")

Pipeline ==
    <<"ParseEvent", "CheckToken", "GetSecrets", "CompareToken", "BuildQuery",
      "SendRequest", "MatchResponse">>

CommasAndWhitespaceOnly(text) ==
    \A i \in 1..Len(text) : text[i] = "," \/ IsWhitespace(text[i])

WithPrefix(prefix, list) == [i \in 1..Len(list) |-> prefix \o list[i]]

(* -------------------------------- claims ------------------------------ *)

C3_AsStated ==
    (Executed("BuildQuery") /\ CommasAndWhitespaceOnly(req.text))
        => /\ ~url.built
           /\ pc = "Done"
           /\ outcome = "Err"
           /\ error = ErrNoIdentifiers
           /\ sent = <<>>

\* C4 as stated: for a text with at least one token that is not comma-only,
\* the query is built, the id list and the login list are the reference
\* partition (empty tokens dropped, order and duplicates kept), every id
\* parameter comes before every login parameter, and "123, foo 456,,bar"
\* gives ids 123, 456 and logins foo, bar.
C4_AsStated ==
    (Executed("BuildQuery") /\ RefTokens(req.text) # <<>>)
        => LET g == generate_api_url(req.text)
           IN  /\ url.built
               /\ url.value = g.url
               /\ g.ids = WithPrefix(IdPrefix, RefNumericIds(req.text))
               /\ g.logins = WithPrefix(LoginPrefix, RefLoginNames(req.text))
               /\ IdsBeforeLogins(url.value)
               /\ req.text = ExampleText
                     => /\ g.ids = WithPrefix(IdPrefix, << <<"1", "2", "3">>, <<"4", "5", "6">> >>)
                        /\ g.logins = WithPrefix(LoginPrefix, << <<"f", "o", "o">>, <<"b", "a", "r">> >>)

\* C5: when the directory fetch succeeds with N records, the one message has
\* empty text and N attachments in the order of the records, the i-th with
\* author_name "<display_name>: <id>", author_icon the profile_image_url and
\* the fixed colour; with N = 0 it is the message with no attachments and no
\* text.
C5_AttachmentsPerRecord ==
    (Executed("MatchResponse") /\ DirectorySucceeded)
        => /\ Len(responses) = 1
           /\ responses[1].response_type = "in_channel"
           /\ responses[1].text = <<>>
           /\ Len(responses[1].attachments) = Len(reply.data)
           /\ \A i \in 1..Len(reply.data) :
                /\ responses[1].attachments[i].author_name
                      = reply.data[i].display_name \o <<":", " ">> \o reply.data[i].id
                /\ responses[1].attachments[i].author_icon = reply.data[i].profile_image_url
                /\ responses[1].attachments[i].color = "#73535ad"

C5_Witness ==
    /\ pc = "Done"
    /\ DirectorySucceeded
    /\ Len(reply.data) = 2
    /\ reply.data[1] # reply.data[2]
    /\ Len(responses[1].attachments) = 2
    /\ responses[1].attachments[1].author_name
          = <<"N", "i", "n", "j", "a", ":", " ", "1", "9", "5", "7", "1", "6", "4", "1">>

\* C6: a response whose status is not exactly 200 ends the request with the
\* failure message, whatever its body holds; a message with attachments or
\* without text is returned only for status 200.
C6_Only200Succeeds ==
    Executed("MatchResponse")
        => /\ (reply.kind = "response" /\ reply.status # 200)
                 => responses = <<FailureMessage(event.text)>>
           /\ (responses # <<>> /\ responses[1].text = <<>>)
                 => (reply.kind = "response" /\ reply.status = 200)

C6_Witness ==
    /\ pc = "Done"
    /\ reply.kind = "response"
    /\ reply.status = 201
    /\ reply.decodable
    /\ reply.data # <<>>
    /\ responses = <<FailureMessage(event.text)>>

\* C7: a request passes authentication exactly when its token is non-empty
\* and equal to the expected one; an empty token ends as Missing, a non-empty
\* different token as Mismatch, and a request that failed authentication
\* never reaches query construction.
C7_Authentication ==
    /\ AuthMissing => (pc = "Done" /\ outcome = "Err" /\ error = ErrNoToken)
    /\ AuthMismatch
          => (req.token # "" /\ pc = "Done" /\ outcome = "Err" /\ error = ErrBadToken)
    /\ Executed("CompareToken")
          => (PastAuthentication <=> (req.token # "" /\ req.token = secrets.slack_token))
    /\ PastAuthentication
          => (secrets.loaded /\ req.token # "" /\ req.token = secrets.slack_token)
    /\ (AuthMissing \/ AuthMismatch)
          => (~PastAuthentication /\ ~url.built /\ sent = <<>>)

C7_Witness ==
    /\ pc = "Done"
    /\ req.token = "Secret"
    /\ secrets.loaded
    /\ secrets.slack_token = "secret"
    /\ error = ErrBadToken

\* C8: when secret retrieval fails, the secret string is absent or it is no
\* bundle, the invocation ends without a message: no query was built and no
\* directory call was made.
C8_ConfigErrorAborts ==
    ConfigFailed
        => /\ Ended
           /\ outcome \in {"Err", "Panic"}
           /\ responses = <<>>
           /\ ~Executed("BuildQuery")
           /\ ~url.built
           /\ sent = <<>>

C8_Witness ==
    /\ ConfigFailed
    /\ pc = "Crashed"
    /\ error = PanicNoSecretString

\* C9: the steps run in the one fixed order; at most one directory call is
\* made, only after authentication succeeded and the query was built, with
\* the built URL that carries every identifier; it is not repeated after a
\* failure, and none is made when authentication or query construction
\* failed.
C9_SingleSequentialCall ==
    /\ Len(trail) <= Len(Pipeline)
    /\ trail = SubSeq(Pipeline, 1, Len(trail))
    /\ Len(sent) <= 1
    /\ sent # <<>>
          => /\ Executed("CompareToken") /\ req.token = secrets.slack_token /\ req.token # ""
             /\ Executed("BuildQuery") /\ url.built
             /\ sent[1].url = url.value
             /\ LET g == generate_api_url(req.text)
                IN  Range(g.ids) \cup Range(g.logins) \subseteq Range(Params(sent[1].url))
    /\ (AuthMissing \/ AuthMismatch \/ QueryFailed) => sent = <<>>
    /\ Ended /\ Executed("MatchResponse") => Len(sent) = 1

C9_Witness ==
    /\ pc = "Done"
    /\ DirectoryFailed
    /\ Len(sent) = 1
    /\ Len(generate_api_url(req.text).ids) + Len(generate_api_url(req.text).logins) = 2

\* C10 as stated: a token is a NumericId exactly when its comma-stripped
\* value is a base-10 unsigned integer of any magnitude, and a LoginName
\* otherwise; the value stored is the comma-stripped string unchanged.
C10_AsStated ==
    (Executed("BuildQuery") /\ url.built /\ <<>> \notin Range(StrippedTokens(req.text)))
        => LET g == generate_api_url(req.text)
               ts == StrippedTokens(req.text)
           IN  /\ g.ids = WithPrefix(IdPrefix,
                            SelectSeqBy(ts, { t \in Range(ts) : IsUnsignedInteger(t) }))
               /\ g.logins = WithPrefix(LoginPrefix,
                               SelectSeqBy(ts, { t \in Range(ts) : ~IsUnsignedInteger(t) }))

====
